---- MODULE Spec2Model ----
(***************************************************************************)
(* Model of framework/infrastructure/k8s.py of the xDS Kubernetes test     *)
(* driver: the kubectl port-forward tunnel (PortForwarder, with            *)
(* KubernetesNamespace.port_forward_pod) and the resource getters that the *)
(* wait_* operations poll.                                                 *)
(*                                                                         *)
(* Text is a sequence of tokens.  A token is one character (a digit, a     *)
(* blank, a line terminator, ':') or one literal piece of the handshake    *)
(* text ("Forwarding from ", " -> ", the bind address).  A raw line, as    *)
(* readline() returns it, ends with the terminator "\n"; readline() at end *)
(* of stream returns the empty text.                                       *)
(***************************************************************************)
EXTENDS Integers, Sequences, FiniteSets, TLC

VARIABLES
    local_port,     \* PortForwarder.local_port (None or an int)
    remote_port,    \* PortForwarder.remote_port
    subprocess,     \* PortForwarder.subprocess: None or the pid of a child
    procs,          \* the children spawned so far, by pid
    pc,             \* "idle", or "connect" while a caller is inside connect()
    outcome,        \* how the last connect()/close() call ended, if none runs
    pfp,            \* port_forward_pod(): "none", "running", "returned", "raised"
    api,            \* the status the control plane answers with, per resource kind
    fetched,        \* the last getter call and what it gave its caller
    objs,           \* the object the control plane holds, per resource kind
    wait            \* the wait_* call in progress: its retryer and how it ended

vars == <<local_port, remote_port, subprocess, procs, pc, outcome, pfp, api, fetched, objs, wait>>
tunnelVars == <<local_port, remote_port, subprocess, procs, pc, outcome, pfp>>

----------------------------------------------------------------------------
(* Bounds *)

MaxSpawn == 2       \* children spawned by one forwarder
MaxLines == 2       \* lines a child writes while connect() reads from it
MaxKills == 2       \* kill() calls issued to one child
MaxTimeout == 3     \* timeout_sec of a wait_*, in seconds
MaxInterval == 2    \* wait_sec of a wait_*, in seconds
MaxLatency == 1     \* the time one fetch takes, in seconds

----------------------------------------------------------------------------
(* Values *)

None == -1                      \* Python's None, for ports, pids, return codes
SIGKILL_CODE == -9              \* Popen.returncode of a child ended by kill()
ExitCodes == {1}                \* return codes of a child that exits by itself

PORT_FORWARD_LOCAL_ADDRESS == "127.0.0.1"
local_address == PORT_FORWARD_LOCAL_ADDRESS

DigitChars == <<"0", "1", "2", "3", "4", "5", "6", "7", "8", "9">>
Digits == {DigitChars[i] : i \in 1..10}
Whitespace == {" ", "\n"}

\* bool(x) of an Optional[int]: None and 0 are false
Truthy(x) == x # None /\ x # 0

\* str(n) of a non-negative int, as an f-string renders it
RECURSIVE str(_)
str(n) == IF n < 10 THEN <<DigitChars[n + 1]>>
          ELSE str(n \div 10) \o <<DigitChars[(n % 10) + 1]>>

DigitVal(c) == CHOOSE v \in 0..9 : DigitChars[v + 1] = c

\* int(s) of a non-empty text of decimal digits
RECURSIVE int(_)
int(s) == IF Len(s) = 1 THEN DigitVal(s[1])
          ELSE 10 * int(SubSeq(s, 1, Len(s) - 1)) + DigitVal(s[Len(s)])

\* str.strip(): drops the leading and trailing whitespace
RECURSIVE LStrip(_)
LStrip(s) == IF s # <<>> /\ Head(s) \in Whitespace THEN LStrip(Tail(s)) ELSE s
RECURSIVE RStrip(_)
RStrip(s) == IF s # <<>> /\ s[Len(s)] \in Whitespace
             THEN RStrip(SubSeq(s, 1, Len(s) - 1)) ELSE s
Strip(s) == RStrip(LStrip(s))

\* the text s has the text t at position i
HasAt(s, i, t) == /\ i + Len(t) - 1 <= Len(s)
                  /\ \A k \in 1..Len(t) : s[i + k - 1] = t[k]

\* the number of consecutive digits of s from position i on: [0-9]+ is greedy
RECURSIVE DigitRun(_, _)
DigitRun(s, i) == IF i <= Len(s) /\ s[i] \in Digits THEN 1 + DigitRun(s, i + 1) ELSE 0

\* f"Forwarding from {self.local_address}:{self.local_port} -> {self.remote_port}"
LocalPortExpected(lp, rp) ==
    <<"Forwarding from ", local_address, ":">> \o str(lp) \o <<" -> ">> \o str(rp)

\* the regular expression local_port_re matches the text s from position i on
ReMatchAt(s, i, rp) ==
    /\ HasAt(s, i, <<"Forwarding from ", local_address, ":">>)
    /\ DigitRun(s, i + 3) >= 1
    /\ HasAt(s, i + 3 + DigitRun(s, i + 3), <<" -> ">> \o str(rp))

\* local_port_re.search(output): group 1 of the leftmost match, <<>> for no match
ReSearch(s, rp) ==
    IF \E i \in 1..Len(s) : ReMatchAt(s, i, rp)
    THEN LET i == CHOOSE j \in 1..Len(s) :
                    /\ ReMatchAt(s, j, rp)
                    /\ \A k \in 1..(j - 1) : ~ReMatchAt(s, k, rp)
         IN SubSeq(s, i + 3, i + 2 + DigitRun(s, i + 3))
    ELSE <<>>

----------------------------------------------------------------------------
(* What a child may write: line contents, each followed by the terminator *)

Handshake(lp, rp) == LocalPortExpected(lp, rp)

LineContents ==
    { Handshake(5, 8),                          \* the handshake for port 5 -> 8
      Handshake(5, 80),                         \* ... for port 5 -> 80
      <<>>,                                     \* a blank line
      <<" ">> \o Handshake(5, 8) \o <<" ">>,    \* the handshake, padded
      <<"error: ">>,                            \* a diagnostic
      <<"error: ">> \o Handshake(7, 8)          \* a handshake after other text
    }
Lines == { c \o <<"\n">> : c \in LineContents }

LocalPorts == {None, 0, 5}
RemotePorts == {8}

----------------------------------------------------------------------------
(* The child processes *)

\* PortMapping with the local port always left to kubectl
PortMappingMutNoLocalPort(lp, rp) == <<":">> \o str(rp)

\* the port_mapping argument of the kubectl command line
PortMapping(lp, rp) ==
    IF Truthy(lp) THEN str(lp) \o <<":">> \o str(rp) ELSE <<":">> \o str(rp)

\* a child right after subprocess.Popen(cmd, stdout=PIPE, stderr=STDOUT)
NewProc(port_mapping) ==
           [port_mapping |-> port_mapping,  \* from its command line
            alive |-> TRUE,         \* the process has not ended
            returncode |-> None,    \* what Popen.poll() reports
            out |-> <<>>,           \* the raw lines it wrote to stdout while
                                    \* connect() reads from it
            rd |-> 0,               \* how many of them connect() has read
            kills |-> 0]            \* Popen.kill() calls issued to it

\* child pid once connect() has ended: what is left in its pipe is read by
\* nobody but communicate(), which logs it
Unread(ps, pid) == [ps EXCEPT ![pid].out = <<>>, ![pid].rd = 0]

\* the child that connect() reads from writes one more line (what the other
\* children write, and what is written after connect(), nobody reads)
ChildEmit(pid, l) ==
    /\ pc = "connect"
    /\ pid = subprocess
    /\ procs[pid].alive
    /\ procs[pid].kills = 0
    /\ Len(procs[pid].out) < MaxLines
    /\ procs' = [procs EXCEPT ![pid].out = Append(@, l)]
    /\ UNCHANGED <<local_port, remote_port, subprocess, pc, outcome, pfp, api, fetched, objs, wait>>

\* a live child exits by itself with return code c
ChildExit(pid, c) ==
    /\ procs[pid].alive
    /\ procs[pid].kills = 0
    /\ procs' = [procs EXCEPT ![pid].alive = FALSE, ![pid].returncode = c]
    /\ UNCHANGED <<local_port, remote_port, subprocess, pc, outcome, pfp, api, fetched, objs, wait>>

\* a child that outlived the grace period of communicate() ends at last
ChildDie(pid) ==
    /\ procs[pid].alive
    /\ procs[pid].kills > 0
    /\ procs' = [procs EXCEPT ![pid].alive = FALSE, ![pid].returncode = SIGKILL_CODE]
    /\ UNCHANGED <<local_port, remote_port, subprocess, pc, outcome, pfp, api, fetched, objs, wait>>

----------------------------------------------------------------------------
(* PortForwarder *)

NoOutcome == [op |-> "none", kind |-> "ok", context |-> "none",
              return_code |-> None, errors |-> <<>>, output |-> <<>>,
              stdout |-> <<>>]

\* the caller holds the forwarder: it built it itself, or port_forward_pod()
\* has handed it over
HasHandle == pfp \in {"none", "returned"}

\* the body of close(): kill(), communicate(timeout=5), self.subprocess = None.
\* dies: the killed child ends within the five seconds communicate() waits
CloseBody(ps, sp, dies) ==
    IF sp = None
    THEN [procs |-> ps, subprocess |-> None, raised |-> FALSE]
    ELSE IF ~ps[sp].alive
    THEN [procs |-> [ps EXCEPT ![sp].kills = @ + 1, ![sp].out = <<>>, ![sp].rd = 0],
          subprocess |-> None, raised |-> FALSE]
    ELSE IF dies
    THEN [procs |-> [ps EXCEPT ![sp].kills = @ + 1, ![sp].out = <<>>, ![sp].rd = 0,
                               ![sp].alive = FALSE, ![sp].returncode = SIGKILL_CODE],
          subprocess |-> None, raised |-> FALSE]
    ELSE [procs |-> [ps EXCEPT ![sp].kills = @ + 1],
          subprocess |-> sp, raised |-> TRUE]

\* OutputValid with the requested-port comparison cut down to a prefix test
OutputValidMutPrefix(output, lp, rp) ==
    IF Truthy(lp)
    THEN HasAt(output, 1, <<"Forwarding from ", local_address, ":">> \o str(lp))
    ELSE ReSearch(output, rp) # <<>>

\* the validation of a non-empty output line: whether it is accepted
OutputValid(output, lp, rp) ==
    IF Truthy(lp) THEN output = LocalPortExpected(lp, rp)
    ELSE ReSearch(output, rp) # <<>>

\* ResolvedLocalPort without the update of line 158
ResolvedLocalPortMutKept(output, lp, rp) == lp

\* self.local_port after an accepted line
ResolvedLocalPort(output, lp, rp) ==
    IF Truthy(lp) THEN lp ELSE int(ReSearch(output, rp))

\* connect() up to the handshake loop: spawns kubectl port-forward
ConnectBody ==
    /\ pc = "idle"
    /\ Len(procs) < MaxSpawn
    /\ procs' = Append(procs, NewProc(PortMapping(local_port, remote_port)))
    /\ subprocess' = Len(procs) + 1
    /\ pc' = "connect"
    /\ outcome' = NoOutcome
    /\ UNCHANGED <<local_port, remote_port, api, fetched, objs, wait>>

\* connect() called on a forwarder the caller holds
Connect ==
    /\ HasHandle
    /\ ConnectBody
    /\ UNCHANGED pfp

\* port_forward_pod(): builds the forwarder and calls its connect()
PortForwardPod ==
    /\ pfp = "none"
    /\ procs = <<>>
    /\ ConnectBody
    /\ pfp' = "running"

\* the except clause of connect(): close(), then the error goes on
ConnectRaise(ps, code, errors, output) ==
    \E dies \in BOOLEAN :
        LET r == CloseBody(Unread(ps, subprocess), subprocess, dies)
            left == SubSeq(ps[subprocess].out, ps[subprocess].rd + 1,
                           Len(ps[subprocess].out))
        IN
        /\ procs' = r.procs
        /\ subprocess' = r.subprocess
        /\ outcome' = [op |-> "connect",
                       kind |-> IF r.raised THEN "TimeoutExpired"
                                ELSE "PortForwardingError",
                       context |-> IF r.raised THEN "PortForwardingError" ELSE "none",
                       return_code |-> code, errors |-> errors, output |-> output,
                       \* what communicate() returns to close(), which logs it
                       stdout |-> IF r.raised THEN <<>> ELSE left]
        /\ pc' = "idle"
        /\ pfp' = IF pfp = "running" THEN "raised" ELSE pfp
        /\ UNCHANGED <<local_port, remote_port, api, fetched, objs, wait>>

\* LoopStep without the poll() of the child after an empty read
LoopStepMutNeverPolls(output, return_code, lp, rp) ==
    IF output = <<>> THEN "continue"
    ELSE IF ~OutputValid(output, lp, rp) THEN "raise unexpected"
    ELSE "break"

\* LoopStep with an empty read taken for the end of the stream
LoopStepMutEmptyIsEnd(output, return_code, lp, rp) ==
    IF output = <<>> THEN "raise exited"
    ELSE IF ~OutputValid(output, lp, rp) THEN "raise unexpected"
    ELSE "break"

\* LoopStep with an unexpected line skipped, as an empty one is
LoopStepMutSkipsUnexpected(output, return_code, lp, rp) ==
    IF output = <<>>
    THEN IF return_code # None THEN "raise exited" ELSE "continue"
    ELSE IF ~OutputValid(output, lp, rp) THEN "continue"
    ELSE "break"

\* what one round of the handshake loop does with the stripped line it read
\* and with what poll() returns
LoopStep(output, return_code, lp, rp) ==
    IF output = <<>>
    THEN IF return_code # None THEN "raise exited" ELSE "continue"
    ELSE IF ~OutputValid(output, lp, rp) THEN "raise unexpected"
    ELSE "break"

\* one round of the handshake loop of connect()
ReadLine ==
    /\ pc = "connect"
    /\ \E p \in {procs[subprocess]} :
       LET eof == p.rd = Len(p.out)
           rd1 == IF eof THEN p.rd ELSE p.rd + 1
       IN
       /\ ~eof \/ ~p.alive          \* readline() blocks for a line or the end
       /\ \E output \in {Strip(IF eof THEN <<>> ELSE p.out[p.rd + 1])} :
          \E step \in {LoopStep(output, p.returncode, local_port, remote_port)} :
          CASE step = "raise exited" ->
                  ConnectRaise([procs EXCEPT ![subprocess].rd = Len(p.out)],
                               p.returncode,
                               SubSeq(p.out, rd1 + 1, Len(p.out)), <<>>)
            [] step = "continue" ->
                  /\ procs' = [procs EXCEPT ![subprocess].rd = rd1]
                  /\ UNCHANGED <<local_port, remote_port, subprocess, pc,
                                 outcome, pfp, api, fetched, objs, wait>>
            [] step = "raise unexpected" ->
                  ConnectRaise([procs EXCEPT ![subprocess].rd = rd1],
                               None, <<>>, output)
            [] step = "break" ->
                  /\ procs' = Unread([procs EXCEPT ![subprocess].rd = rd1],
                                     subprocess)
                  /\ local_port' = ResolvedLocalPort(output, local_port, remote_port)
                  /\ outcome' = [NoOutcome EXCEPT !.op = "connect", !.output = output]
                  /\ pc' = "idle"
                  /\ pfp' = IF pfp = "running" THEN "returned" ELSE pfp
                  /\ UNCHANGED <<remote_port, subprocess, api, fetched, objs, wait>>

\* close() called on a forwarder the caller holds
Close ==
    /\ pc = "idle"
    /\ HasHandle
    /\ subprocess # None => procs[subprocess].kills < MaxKills
    /\ \E dies \in BOOLEAN :
        LET r == CloseBody(procs, subprocess, dies) IN
        /\ procs' = r.procs
        /\ subprocess' = r.subprocess
        /\ outcome' = [NoOutcome EXCEPT !.op = "close",
                            !.kind = IF r.raised THEN "TimeoutExpired" ELSE "ok"]
    /\ UNCHANGED <<local_port, remote_port, pc, pfp, api, fetched, objs, wait>>

----------------------------------------------------------------------------
(* The resource getters of KubernetesNamespace *)

Kinds == {"service", "service_account", "namespace", "deployment", "pod", "pod_list"}
Statuses == {200, 403, 404, 500}

Return(v) == [kind |-> "return", value |-> v, status |-> 200]
RaiseApi(st) == [kind |-> "raise", value |-> "ApiException", status |-> st]

\* self.api.core.read_namespaced_*(name, self.name): the object, or ApiException
ApiRead(k, st) == IF st = 200 THEN Return(k) ELSE RaiseApi(st)

\* simple_resource_get with a handler that ignores every ApiException
simple_resource_getMutAnyStatus(r) ==
    IF r.kind = "raise" THEN Return("None") ELSE r

\* the decorator: func's ApiException with status 404 becomes None
simple_resource_get(r) ==
    IF r.kind = "raise" /\ r.status = 404 THEN Return("None") ELSE r

get_service(st) == simple_resource_get(ApiRead("service", st))
get_service_account(st) == simple_resource_get(ApiRead("service_account", st))
get(st) == simple_resource_get(ApiRead("namespace", st))
get_deployment(st) == simple_resource_get(ApiRead("deployment", st))
get_pod(st) == ApiRead("pod", st)

NoFetch == [op |-> "none", status |-> 200, result |-> Return("None")]

\* the control plane starts to answer requests for kind k with status st
ApiChange(k, st) ==
    /\ api[k] # st
    /\ api' = [api EXCEPT ![k] = st]
    /\ UNCHANGED <<tunnelVars, fetched, objs, wait>>

Fetch(op, k, result) ==
    /\ fetched' = [op |-> op, status |-> api[k], result |-> result]
    /\ UNCHANGED <<tunnelVars, api, objs, wait>>

GetService == Fetch("get_service", "service", get_service(api["service"]))
GetServiceAccount ==
    Fetch("get_service_account", "service_account",
          get_service_account(api["service_account"]))
Get == Fetch("get", "namespace", get(api["namespace"]))
GetDeployment == Fetch("get_deployment", "deployment", get_deployment(api["deployment"]))
GetPod == Fetch("get_pod", "pod", get_pod(api["pod"]))

----------------------------------------------------------------------------
(* The objects the control plane holds, as the getters return them *)

NEG_STATUS_META == "cloud.google.com/neg-status"

\* an Optional attribute: <<>> is None, <<x>> is the value x
NoValue == <<>>
Some(x) == <<x>>

NoneObj == [type |-> "NoneType"]
\* a service, by metadata.annotations: None, or the keys of the map
V1Service(annotations) == [type |-> "V1Service", annotations |-> annotations]
V1ServiceAccount == [type |-> "V1ServiceAccount"]
V1Namespace == [type |-> "V1Namespace"]
\* a deployment, by status: None, or a status with its available_replicas
V1Deployment(status) == [type |-> "V1Deployment", status |-> status]
V1DeploymentStatus(n) == [available_replicas |-> n]
\* a pod, by status: None, or a status with its phase
V1Pod(status) == [type |-> "V1Pod", status |-> status]
V1PodStatus(phase) == [phase |-> phase]
\* pod_list.items: a list of pods
PodItems(items) == [type |-> "list", items |-> items]

ReplicaCounts == {None, 2, 3, 4}
Phases == {"Pending", "Unknown", "Running"}

\* the objects the control plane may hold for a resource of kind k
Snapshots(k) ==
    CASE k = "service" ->
            { V1Service(a) : a \in { NoValue, Some({}), Some({"other"}),
                                     Some({NEG_STATUS_META}) } }
      [] k = "service_account" -> { V1ServiceAccount }
      [] k = "namespace" -> { V1Namespace }
      [] k = "deployment" ->
            { V1Deployment(NoValue) } \cup
            { V1Deployment(Some(V1DeploymentStatus(n))) : n \in ReplicaCounts }
      [] k = "pod" ->
            { V1Pod(NoValue) } \cup { V1Pod(Some(V1PodStatus(ph))) : ph \in Phases }
      [] k = "pod_list" ->
            { PodItems(items) : items \in { <<>>, <<"pod">>, <<"pod", "pod", "pod">>,
                                            <<"pod", "pod", "pod", "pod">> } }

\* a resource right after its manifest was applied
InitObjs ==
    [k \in Kinds |->
        CASE k = "service" -> V1Service(Some({}))
          [] k = "service_account" -> V1ServiceAccount
          [] k = "namespace" -> V1Namespace
          [] k = "deployment" -> V1Deployment(Some(V1DeploymentStatus(None)))
          [] k = "pod" -> V1Pod(Some(V1PodStatus("Pending")))
          [] k = "pod_list" -> PodItems(<<>>)]

\* the control plane replaces the object of kind k
ObjChange(k, o) ==
    /\ objs[k] # o
    /\ objs' = [objs EXCEPT ![k] = o]
    /\ UNCHANGED <<tunnelVars, api, fetched, wait>>

\* self.api.core.list_namespaced_pod(...).items
list_pods_with_labels(st) == ApiRead("pod_list", st)
\* list_deployment_pods(deployment)
list_deployment_pods(st) == list_pods_with_labels(st)

----------------------------------------------------------------------------
(* The predicates: "True", "False", or the exception the evaluation raises *)

Bool(b) == IF b THEN "True" ELSE "False"

\* lambda x: x is None
IsNone(v) == Bool(v.type = "NoneType")

\* isinstance(service, V1Service) and NEG_STATUS_META in service.metadata.annotations
_check_service_neg_annotation(service) ==
    IF service.type # "V1Service" THEN "False"
    ELSE IF service.annotations = NoValue THEN "TypeError"   \* 'in' on None
    ELSE Bool(NEG_STATUS_META \in service.annotations[1])

\* isinstance(pod, V1Pod) and pod.status.phase not in ('Pending', 'Unknown')
_pod_started(pod) ==
    IF pod.type # "V1Pod" THEN "False"
    ELSE IF pod.status = NoValue THEN "AttributeError"       \* None.phase
    ELSE Bool(pod.status[1].phase \notin {"Pending", "Unknown"})

\* isinstance(deployment, V1Deployment) and
\* deployment.status.available_replicas is not None and
\* deployment.status.available_replicas >= count
_replicas_available(deployment, count) ==
    IF deployment.type # "V1Deployment" THEN "False"
    ELSE IF deployment.status = NoValue
    THEN "AttributeError"                                    \* None.available_replicas
    ELSE IF deployment.status[1].available_replicas = None THEN "False"
    ELSE Bool(deployment.status[1].available_replicas >= count)

\* lambda pods: len(pods) == count
PodCountEquals(pods, count) == Bool(Len(pods.items) = count)

----------------------------------------------------------------------------
(* The wait_* operations of KubernetesNamespace *)

\* what a wait_* hands to the retryer: the getter it polls, the kind of
\* resource that getter reads, the predicate, and whether the wait_* catches
\* RetryError to log the last result before it raises it again
wait_for_service_deleted ==
    [kind |-> "service", fetch |-> "get_service", check_result |-> "is None",
     logs |-> FALSE]
wait_for_service_account_deleted ==
    [kind |-> "service_account", fetch |-> "get_service_account",
     check_result |-> "is None", logs |-> FALSE]
wait_for_namespace_deleted ==
    [kind |-> "namespace", fetch |-> "get", check_result |-> "is None",
     logs |-> FALSE]
wait_for_service_neg ==
    [kind |-> "service", fetch |-> "get_service",
     check_result |-> "_check_service_neg_annotation", logs |-> TRUE]
wait_for_deployment_available_replicas ==
    [kind |-> "deployment", fetch |-> "get_deployment",
     check_result |-> "_replicas_available", logs |-> TRUE]
wait_for_deployment_replica_count ==
    [kind |-> "pod_list", fetch |-> "list_deployment_pods",
     check_result |-> "len(pods) == count", logs |-> TRUE]
wait_for_deployment_deleted ==
    [kind |-> "deployment", fetch |-> "get_deployment", check_result |-> "is None",
     logs |-> FALSE]
wait_for_pod_started ==
    [kind |-> "pod", fetch |-> "get_pod", check_result |-> "_pod_started",
     logs |-> TRUE]

WaitOps ==
    [wait_for_service_deleted |-> wait_for_service_deleted,
     wait_for_service_account_deleted |-> wait_for_service_account_deleted,
     wait_for_namespace_deleted |-> wait_for_namespace_deleted,
     wait_for_service_neg |-> wait_for_service_neg,
     wait_for_deployment_available_replicas |-> wait_for_deployment_available_replicas,
     wait_for_deployment_replica_count |-> wait_for_deployment_replica_count,
     wait_for_deployment_deleted |-> wait_for_deployment_deleted,
     wait_for_pod_started |-> wait_for_pod_started]

\* retryer(self.<fetch>, name): the call of the getter, against status st
CallFetch(fetch, st) ==
    CASE fetch = "get_service" -> get_service(st)
      [] fetch = "get_service_account" -> get_service_account(st)
      [] fetch = "get" -> get(st)
      [] fetch = "get_deployment" -> get_deployment(st)
      [] fetch = "get_pod" -> get_pod(st)
      [] fetch = "list_deployment_pods" -> list_deployment_pods(st)

\* check_result(v), for a wait_* called with count
CallCheckResult(check_result, v, count) ==
    CASE check_result = "is None" -> IsNone(v)
      [] check_result = "_check_service_neg_annotation" ->
            _check_service_neg_annotation(v)
      [] check_result = "_replicas_available" -> _replicas_available(v, count)
      [] check_result = "len(pods) == count" -> PodCountEquals(v, count)
      [] check_result = "_pod_started" -> _pod_started(v)

\* what a call gives its caller: a value, or an error (with the last result,
\* for RetryError, and the status, for ApiException)
NoResult == [kind |-> "none", error |-> "none", status |-> 200, value |-> NoneObj]
Returned(v) == [kind |-> "return", error |-> "none", status |-> 200, value |-> v]
Raised(e, st, v) == [kind |-> "raise", error |-> e, status |-> st, value |-> v]

\* the getter's result r, with the object o the control plane holds
Fetched(r, o) ==
    IF r.kind = "raise" THEN Raised(r.value, r.status, NoneObj)
    ELSE IF r.value = "None" THEN Returned(NoneObj)
    ELSE Returned(o)

\* RetryerArgs with the two durations exchanged
RetryerArgsMutSwapped(timeout_sec, wait_sec) ==
    [wait_fixed |-> timeout_sec, timeout |-> wait_sec]

\* constant_retryer(wait_fixed=timedelta(seconds=wait_sec),
\*                  timeout=timedelta(seconds=timeout_sec), ...)
RetryerArgs(timeout_sec, wait_sec) ==
    [wait_fixed |-> wait_sec, timeout |-> timeout_sec]

\* WaitResult with the RetryError handler ending without its raise
WaitResultMutSwallowed(op, r) ==
    IF r.kind = "raise" /\ (r.error # "RetryError" \/ ~WaitOps[op].logs) THEN r
    ELSE Returned(NoneObj)

\* what a wait_* gives its caller when its retryer call ended with r: an
\* error of the retryer goes on (after the log of the last result, for
\* RetryError in the wait_* that catch it); otherwise the wait_* returns None
WaitResult(op, r) ==
    IF r.kind = "raise" THEN r ELSE Returned(NoneObj)

NoWait == [op |-> "none", count |-> 0, timeout_sec |-> 0, wait_sec |-> 0,
           wait_fixed |-> 0, timeout |-> 0, pc |-> "idle", now |-> 0, fetches |-> 0, sleeps |-> 0,
           status |-> 200, last |-> NoResult, checked |-> "none",
           result |-> NoResult]

\* a wait_* is called: it builds its retryer and calls it
WaitCall(op, count, timeout_sec, wait_sec) ==
    /\ wait.pc = "idle"
    /\ LET args == RetryerArgs(timeout_sec, wait_sec) IN
       wait' = [NoWait EXCEPT !.op = op, !.count = count,
                              !.timeout_sec = timeout_sec, !.wait_sec = wait_sec,
                              !.wait_fixed = args.wait_fixed,
                              !.timeout = args.timeout, !.pc = "attempt"]
    /\ UNCHANGED <<tunnelVars, api, fetched, objs>>

\* the retryer ends: the wait_* ends with what WaitResult makes of r
RetryerEnds(w, r) ==
    wait' = [w EXCEPT !.pc = "done", !.result = WaitResult(w.op, r)]

\* one attempt of the retryer: fetch, check_result, and the timeout test.
\* d: the time the fetch took
RetryerAttempt(d) ==
    /\ wait.pc = "attempt"
    /\ LET op == WaitOps[wait.op]
           f == Fetched(CallFetch(op.fetch, api[op.kind]), objs[op.kind])
           w == [wait EXCEPT !.now = @ + d, !.fetches = @ + 1,
                             !.status = api[op.kind], !.last = f,
                             !.checked = "none"]
       IN
       IF f.kind = "raise" THEN RetryerEnds(w, f)
       ELSE LET c == CallCheckResult(op.check_result, f.value, wait.count)
                wc == [w EXCEPT !.checked = c]
            IN
            IF c = "True" THEN RetryerEnds(wc, f)
            ELSE IF c # "False" THEN RetryerEnds(wc, Raised(c, 200, NoneObj))
            ELSE IF wc.now >= wc.timeout
            THEN RetryerEnds(wc, Raised("RetryError", 200, f.value))
            ELSE wait' = [wc EXCEPT !.pc = "sleep"]
    /\ UNCHANGED <<tunnelVars, api, fetched, objs>>

\* the retryer sleeps wait_fixed between a failed check and the next attempt
RetryerSleep ==
    /\ wait.pc = "sleep"
    /\ wait' = [wait EXCEPT !.now = @ + wait.wait_fixed, !.sleeps = @ + 1,
                            !.pc = "attempt"]
    /\ UNCHANGED <<tunnelVars, api, fetched, objs>>

WaitForServiceDeleted(t, i) == WaitCall("wait_for_service_deleted", 1, t, i)
WaitForServiceAccountDeleted(t, i) ==
    WaitCall("wait_for_service_account_deleted", 1, t, i)
WaitForNamespaceDeleted(t, i) == WaitCall("wait_for_namespace_deleted", 1, t, i)
WaitForServiceNeg(t, i) == WaitCall("wait_for_service_neg", 1, t, i)
WaitForDeploymentAvailableReplicas(n, t, i) ==
    WaitCall("wait_for_deployment_available_replicas", n, t, i)
WaitForDeploymentReplicaCount(n, t, i) ==
    WaitCall("wait_for_deployment_replica_count", n, t, i)
WaitForDeploymentDeleted(t, i) == WaitCall("wait_for_deployment_deleted", 1, t, i)
WaitForPodStarted(t, i) == WaitCall("wait_for_pod_started", 1, t, i)

----------------------------------------------------------------------------
(* Specifications *)

TunnelInit ==
    /\ local_port \in LocalPorts
    /\ remote_port \in RemotePorts
    /\ subprocess = None
    /\ procs = <<>>
    /\ pc = "idle"
    /\ outcome = NoOutcome
    /\ pfp = "none"

K8sInit ==
    /\ api = [k \in Kinds |-> 200]
    /\ fetched = NoFetch
    /\ objs = InitObjs
    /\ wait = NoWait

Init == TunnelInit /\ K8sInit

Next ==
    \/ Connect
    \/ PortForwardPod
    \/ ReadLine
    \/ Close
    \/ \E pid \in 1..Len(procs), l \in Lines : ChildEmit(pid, l)
    \/ \E pid \in 1..Len(procs), c \in ExitCodes : ChildExit(pid, c)
    \/ \E pid \in 1..Len(procs) : ChildDie(pid)

Spec == Init /\ [][Next]_vars

\* one connect() call on a new forwarder, and the close() calls after it. The
\* caller inside connect() keeps running: its loop sleeps 0.05 s and reads on
NextLive == Next /\ (pc = "idle" /\ pc' = "connect" => procs = <<>>)

SpecLive == Init /\ [][NextLive]_vars /\ WF_vars(ReadLine)

\* the getters, against a control plane whose answers change
InitK8s ==
    /\ local_port = None
    /\ remote_port = 8
    /\ subprocess = None
    /\ procs = <<>>
    /\ pc = "idle"
    /\ outcome = NoOutcome
    /\ pfp = "none"
    /\ K8sInit

NextK8s ==
    \/ \E k \in Kinds, st \in Statuses : ApiChange(k, st)
    \/ GetService
    \/ GetServiceAccount
    \/ Get
    \/ GetDeployment
    \/ GetPod

SpecK8s == InitK8s /\ [][NextK8s]_vars

\* one wait_* call, against a control plane that changes what it polls
Timeouts == 0..MaxTimeout
Intervals == 1..MaxInterval
Latencies == 0..MaxLatency
Counts == {1, 3}

NextWait ==
    \/ \E t \in Timeouts, i \in Intervals : WaitForServiceDeleted(t, i)
    \/ \E t \in Timeouts, i \in Intervals : WaitForServiceAccountDeleted(t, i)
    \/ \E t \in Timeouts, i \in Intervals : WaitForNamespaceDeleted(t, i)
    \/ \E t \in Timeouts, i \in Intervals : WaitForServiceNeg(t, i)
    \/ \E n \in Counts, t \in Timeouts, i \in Intervals :
            WaitForDeploymentAvailableReplicas(n, t, i)
    \/ \E n \in Counts, t \in Timeouts, i \in Intervals :
            WaitForDeploymentReplicaCount(n, t, i)
    \/ \E t \in Timeouts, i \in Intervals : WaitForDeploymentDeleted(t, i)
    \/ \E t \in Timeouts, i \in Intervals : WaitForPodStarted(t, i)
    \/ \E d \in Latencies : RetryerAttempt(d)
    \/ RetryerSleep
    \/ \E st \in Statuses :
            wait.pc \in {"attempt", "sleep"} /\ ApiChange(WaitOps[wait.op].kind, st)
    \/ \E k \in Kinds : \E o \in Snapshots(k) :
            /\ wait.pc \in {"attempt", "sleep"}
            /\ k = WaitOps[wait.op].kind
            /\ ObjChange(k, o)

SpecWait == InitK8s /\ [][NextWait]_vars

----------------------------------------------------------------------------
(* Properties of the tunnel *)

\* the child a call of connect() in progress reads from
Cur == procs[subprocess]

\* connect() of child pid was started with a local port in its port mapping
FixedMode(pid) == Head(procs[pid].port_mapping) # ":"

\* this step ends a call of connect()
ConnectEnds == pc = "connect" /\ pc' = "idle"

\* this step reads a line the child has written
ReadsLine == ReadLine /\ Cur.rd < Len(Cur.out)
LineRead == Cur.out[Cur.rd + 1]

\* a raw line without its terminator
Content(l) == SubSeq(l, 1, Len(l) - 1)

\* the exception raised inside connect() by the handshake loop
RaisedInLoop(o) ==
    IF o.kind = "TimeoutExpired" THEN o.context ELSE o.kind

\* C1: whenever connect() raises after the child was spawned, close() has run
\* before the caller sees the error: the child is no longer alive and the
\* forwarder tracks no process.
C1_FailedConnectLeavesNoProcess ==
    [][ConnectEnds /\ outcome'.kind # "ok"
        => subprocess' = None /\ ~procs'[subprocess].alive]_vars

\* C2: close() always returns normally to its caller, also when the killed
\* child does not end within the grace period.
C2_CloseAlwaysReturns ==
    outcome.op = "close" => outcome.kind = "ok"

\* the call before this one has run close(): it was close(), or a connect()
\* that raised
ClosedBefore ==
    outcome.op = "close" \/ (outcome.op = "connect" /\ outcome.kind # "ok")

\* C3: close() is idempotent: with no process tracked it does nothing, and a
\* close() after a close() does not raise and issues no kill.
C3_CloseIdempotent ==
    [][Close =>
        /\ subprocess = None =>
              /\ UNCHANGED <<procs, subprocess, local_port>>
              /\ outcome'.kind = "ok"
        /\ ClosedBefore =>
              /\ outcome'.kind = "ok"
              /\ \A pid \in 1..Len(procs) : procs'[pid].kills = procs[pid].kills]_vars

IsHandshake(s, rp) ==
    \E n \in 1..(Len(s) - 3) :
        /\ \A k \in 1..n : s[3 + k] \in Digits
        /\ s = <<"Forwarding from ", local_address, ":">> \o SubSeq(s, 4, 3 + n)
                 \o <<" -> ">> \o str(rp)
PortOf(s) == int(SubSeq(s, 4, 3 + DigitRun(s, 4)))

\* C5: with no local port requested, connect() succeeds exactly when the line
\* matches the handshake pattern, local_port then is the number the line
\* names, and any other non-empty line raises PortForwardingError.
C5_AutoPortLineMatchesPattern ==
    [][ReadsLine /\ ~FixedMode(subprocess) /\ Strip(LineRead) # <<>> =>
        /\ ConnectEnds
        /\ outcome'.kind = "ok" <=> IsHandshake(Strip(LineRead), remote_port)
        /\ outcome'.kind = "ok" => local_port' = PortOf(Strip(LineRead))
        /\ outcome'.kind # "ok" => RaisedInLoop(outcome') = "PortForwardingError"]_vars

\* none of the lines of child pid is a handshake line for its connect()
NoHandshakeLine(pid) ==
    \A i \in 1..Len(procs[pid].out) :
        ~IsHandshake(Strip(procs[pid].out[i]), remote_port)

\* the texts an error of connect() carries: the drained lines and the line
\* it complains about
Carried(o) == {Strip(o.errors[i]) : i \in 1..Len(o.errors)} \cup {o.output}

\* C6: when the child has exited with code c without writing a handshake
\* line, connect() raises a PortForwardingError that carries c and every line
\* the child wrote (blank lines aside).
C6_EarlyExitErrorCarriesCodeAndOutput ==
    [][ReadLine /\ ~Cur.alive /\ NoHandshakeLine(subprocess) =>
        /\ ConnectEnds
        /\ RaisedInLoop(outcome') = "PortForwardingError"
        /\ outcome'.return_code = Cur.returncode
        /\ \A i \in 1..Len(Cur.out) :
              Strip(Cur.out[i]) # <<>> => Strip(Cur.out[i]) \in Carried(outcome')]_vars

\* the text s holds the handshake text for local port n and remote port rp
HoldsHandshake(s, n, rp) ==
    \E i \in 1..Len(s), k \in 1..Len(s) :
        /\ HasAt(s, i, <<"Forwarding from ", local_address, ":">>)
        /\ i + 2 + k <= Len(s)
        /\ \A j \in (i + 3)..(i + 2 + k) : s[j] \in Digits
        /\ n = int(SubSeq(s, i + 3, i + 2 + k))
        /\ HasAt(s, i + 3 + k, <<" -> ">> \o str(rp))

\* C7: port_forward_pod() hands out the forwarder only after a handshake line
\* was read and accepted: when it returns, the forwarder tracks a spawned
\* child and local_port is the port of the accepted line (the requested one,
\* if one was requested); from then on local_port is never None; a failed
\* handshake returns no forwarder.
C7_ForwarderPublishedAfterHandshake ==
    /\ [][pfp # "returned" /\ pfp' = "returned" =>
            /\ ReadsLine
            /\ subprocess' \in 1..Len(procs')
            /\ local_port' # None
            /\ HoldsHandshake(Strip(LineRead), local_port', remote_port)
            /\ FixedMode(subprocess) => local_port' = local_port]_vars
    /\ [](pfp = "returned" => local_port # None)
    /\ [][ConnectEnds /\ pfp = "running" /\ outcome'.kind # "ok" =>
            pfp' = "raised"]_vars
    /\ [][pfp = "raised" => pfp' = "raised" /\ ~Connect /\ ~Close]_vars

\* port_forward_pod() has returned a forwarder whose port the child chose
C7_Witness ==
    /\ pfp = "returned"
    /\ pc = "idle" /\ subprocess = 1
    /\ ~FixedMode(1)
    /\ outcome.op = "connect" /\ outcome.kind = "ok"
    /\ local_port = 7

\* the state of the tunnel handle
TunnelState ==
    IF pc = "connect" THEN "Connecting"
    ELSE IF outcome.op = "connect" /\ outcome.kind = "ok" THEN "Ready"
    ELSE IF outcome.op = "connect" THEN "Failed"
    ELSE IF outcome.op = "close" /\ procs # <<>> THEN "Closed"
    ELSE "New"

\* C8: Failed and Closed are terminal: once the tunnel is Failed or Closed it
\* is never again Connecting or Ready; and Failed implies that the child is
\* torn down.
C8_FailedAndClosedAreTerminal ==
    /\ [][(TunnelState = "Failed" \/ TunnelState = "Closed") =>
            (TunnelState' # "Connecting" /\ TunnelState' # "Ready")]_vars
    /\ [](TunnelState = "Failed" =>
            /\ subprocess = None
            /\ ~procs[Len(procs)].alive)

\* C9: at most one child of the forwarder is alive, and every live child is
\* the one the forwarder tracks.
C9_OneTrackedChild ==
    /\ Cardinality({pid \in 1..Len(procs) : procs[pid].alive}) <= 1
    /\ \A pid \in 1..Len(procs) : procs[pid].alive => subprocess = pid

\* the getters the wait_* operations poll with
PolledGetters ==
    {"get_service", "get_service_account", "get", "get_deployment", "get_pod"}

\* C10: every getter handed to the poller returns None when the control
\* plane answers 404, and raises on every other failure.
C10_GettersReturnNoneOnNotFound ==
    fetched.op \in PolledGetters =>
        /\ fetched.status = 404 => fetched.result = Return("None")
        /\ fetched.status \notin {200, 404} =>
              fetched.result = RaiseApi(fetched.status)

----------------------------------------------------------------------------
(* Properties of the wait_* operations *)

\* the value the last fetch of the wait observed
LastValue == wait.last.value

\* C11: a wait_* whose predicate was false up to the timeout ends by raising
\* RetryError, which carries the last observed result; a wait_* goes on after
\* a false predicate only within the timeout; and no wait_* returns normally
\* unless its predicate was true.
C11_ExhaustedWaitRaisesRetryError ==
    /\ wait.pc = "done" /\ wait.checked = "False" =>
          /\ wait.result = Raised("RetryError", 200, LastValue)
          /\ wait.now >= wait.timeout_sec
    /\ wait.pc = "sleep" => wait.checked = "False" /\ wait.now < wait.timeout_sec
    /\ wait.pc = "done" /\ wait.checked # "True" => wait.result.kind = "raise"

\* a wait_* that logs the last result has raised RetryError after retries
C11_Witness ==
    /\ wait.op = "wait_for_deployment_available_replicas"
    /\ wait.pc = "done" /\ wait.fetches = 3 /\ wait.checked = "False"
    /\ wait.result = Raised("RetryError", 200, V1Deployment(Some(V1DeploymentStatus(2))))

\* this step is a fetch of the wait in progress
WaitFetches == wait'.fetches = wait.fetches + 1
PolledStatus == api[WaitOps[wait.op].kind]

\* C12: a fetch that meets an API failure other than not-found ends the wait
\* at once with that ApiException, not with RetryError; no fetch follows the
\* end of a wait; and a fetch is repeated only after a fetch that returned a
\* value for which the predicate was false.
C12_FetchErrorAbortsWait ==
    /\ [][WaitFetches /\ PolledStatus \notin {200, 404} =>
            /\ wait'.pc = "done"
            /\ wait'.result = Raised("ApiException", PolledStatus, NoneObj)
            /\ wait'.result.error # "RetryError"]_vars
    /\ [][wait.pc = "done" => wait' = wait]_vars
    /\ [][WaitFetches /\ wait.fetches > 0 =>
            wait.last.kind = "return" /\ wait.checked = "False"]_vars

\* a wait was aborted by a permission error on its second fetch
C12_Witness ==
    /\ wait.op = "wait_for_service_neg"
    /\ wait.pc = "done" /\ wait.fetches = 2 /\ wait.sleeps = 1
    /\ wait.result = Raised("ApiException", 403, NoneObj)

\* C13: a wait_* with timeout 0 makes exactly one fetch and one check and
\* never sleeps: it returns if the predicate is true and raises RetryError if
\* it is false; and with any timeout, a predicate true on the first fetch ends
\* the wait with a normal return after one fetch and no sleep.
C13_ZeroTimeoutOrFirstTrueOneFetch ==
    /\ wait.op # "none" /\ wait.timeout_sec = 0 =>
          /\ wait.fetches <= 1 /\ wait.sleeps = 0
          /\ wait.fetches = 1 => wait.pc = "done"
          /\ wait.checked = "True" => wait.result.kind = "return"
          /\ wait.checked = "False" => wait.result.error = "RetryError"
    /\ wait.fetches = 1 /\ wait.checked = "True" =>
          wait.pc = "done" /\ wait.result.kind = "return" /\ wait.sleeps = 0

\* a wait with timeout 0 has raised RetryError after its only fetch
C13_Witness ==
    /\ wait.op = "wait_for_service_deleted"
    /\ wait.timeout_sec = 0
    /\ wait.pc = "done" /\ wait.fetches = 1 /\ wait.sleeps = 0
    /\ wait.checked = "False" /\ wait.result.error = "RetryError"

\* C14 as stated: a wait_* with interval i and timeout t never fetches more
\* than t/i + 1 times, and when the predicate was false on every fetch it
\* raises RetryError and does not return.
C14_AtMostTimeoutOverIntervalPlusOne ==
    wait.op # "none" =>
        /\ (wait.fetches - 1) * wait.wait_sec <= wait.timeout_sec
        /\ wait.pc = "done" /\ wait.checked = "False" =>
              wait.result.error = "RetryError"

\* C14, amended: a wait_* with interval i > 0 and timeout t never fetches more
\* than ceil(t/i) + 1 times (t/i + 1 when i divides t), and when the predicate
\* was false on every fetch it raises RetryError and does not return.
C14_AtMostCeilingPlusOne ==
    wait.op # "none" =>
        /\ (wait.fetches - 2) * wait.wait_sec < wait.timeout_sec
        /\ wait.timeout_sec % wait.wait_sec = 0 =>
              (wait.fetches - 1) * wait.wait_sec <= wait.timeout_sec
        /\ wait.pc = "done" /\ wait.checked = "False" =>
              wait.result.error = "RetryError"

\* a wait with timeout 2 and interval 1 was false on each of its three fetches
C14_Witness ==
    /\ wait.op = "wait_for_deployment_deleted"
    /\ wait.timeout_sec = 2 /\ wait.wait_sec = 1
    /\ wait.pc = "done" /\ wait.fetches = 3 /\ wait.sleeps = 2
    /\ wait.result.error = "RetryError"

\* the predicate of the wait in progress was evaluated on the last fetch
Checked(check_result) ==
    /\ wait.op # "none"
    /\ WaitOps[wait.op].check_result = check_result
    /\ wait.fetches > 0 /\ wait.last.kind = "return"

\* C15: the NEG-annotation predicate returns a boolean for every observed
\* service (absent, without annotation map, with an empty one, with
\* annotations) and never raises; it is true exactly when the service is
\* present and its annotation map has the NEG status key.
C15_NegAnnotationPredicateTotal ==
    Checked("_check_service_neg_annotation") =>
        /\ wait.checked \in {"True", "False"}
        /\ wait.checked = "True" <=>
              /\ LastValue.type = "V1Service"
              /\ LastValue.annotations # NoValue
              /\ NEG_STATUS_META \in LastValue.annotations[1]

\* C16: the replicas-available predicate with required count n is true
\* exactly when the deployment is present and reports an available-replica
\* count >= n; for an absent deployment, a deployment without status and an
\* unreported count it is false, and it never raises.
C16_ReplicasAvailableTotal ==
    Checked("_replicas_available") =>
        /\ wait.checked \in {"True", "False"}
        /\ wait.checked = "True" <=>
              /\ LastValue.type = "V1Deployment"
              /\ LastValue.status # NoValue
              /\ LastValue.status[1].available_replicas # None
              /\ LastValue.status[1].available_replicas >= wait.count

----------------------------------------------------------------------------
(* Properties of the handshake loop *)

\* the text s holds the handshake text for some local port and remote port rp
HoldsAnyHandshake(s, rp) ==
    \E i \in 1..Len(s), k \in 1..Len(s) :
        /\ HasAt(s, i, <<"Forwarding from ", local_address, ":">>)
        /\ i + 2 + k <= Len(s)
        /\ \A j \in (i + 3)..(i + 2 + k) : s[j] \in Digits
        /\ HasAt(s, i + 3 + k, <<" -> ">> \o str(rp))

\* C17: an empty line read while the child is alive is neither an error nor
\* the end of the stream: connect() stays in its loop, with the child alive
\* and tracked and nothing raised; and connect() returns normally only on
\* reading a non-empty line that holds the handshake text for local_port.
C17_EmptyReadWhileAliveKeepsWaiting ==
    /\ [][ReadsLine /\ Strip(LineRead) = <<>> /\ Cur.alive =>
            /\ pc' = "connect"
            /\ outcome' = outcome
            /\ subprocess' = subprocess
            /\ procs'[subprocess].alive /\ procs'[subprocess].kills = 0
            /\ local_port' = local_port]_vars
    /\ [][ConnectEnds /\ outcome'.kind = "ok" =>
            /\ ReadsLine
            /\ Strip(LineRead) # <<>>
            /\ HoldsHandshake(Strip(LineRead), local_port', remote_port)]_vars

\* connect() has read an empty line from a live child and waits on
C17_Witness ==
    /\ pc = "connect"
    /\ Cur.alive
    /\ Cur.rd = 1 /\ Strip(Cur.out[1]) = <<>>
    /\ outcome = NoOutcome

\* the line s has the shape connect() expects: with a requested port lp the
\* handshake for that port, without one the handshake text for any port
ExpectedShape(s, lp, rp) ==
    IF Truthy(lp) THEN IsHandshake(s, rp) /\ PortOf(s) = lp
    ELSE HoldsAnyHandshake(s, rp)

NonEmptyLinePending ==
    \E j \in (Cur.rd + 1)..Len(Cur.out) : Strip(Cur.out[j]) # <<>>

\* C19: connect() ends, by return or raise, whenever the child has written a
\* non-empty line that connect() has not read yet, or has exited; so a
\* connect() that never ends has a child that stays alive and writes no
\* non-empty line.
C19_ConnectTerminates ==
    (pc = "connect" /\ (NonEmptyLinePending \/ ~Cur.alive)) ~> (pc = "idle")

\* connect() has ended on the exit of a child that wrote nothing
C19_Witness ==
    /\ pc = "idle"
    /\ outcome.op = "connect" /\ outcome.kind = "PortForwardingError"
    /\ outcome.return_code = 1
    /\ outcome.output = <<>> /\ outcome.errors = <<>>

\* this step is the start of a connect()
ConnectStarts == pc = "idle" /\ pc' = "connect"

====
